---- MODULE Spec2Model ----
(***************************************************************************)
(* Product write path of drop-in-be: productController -> productRepo ->   *)
(* Product model hooks (pre-validate, pre-save ensureUniqueSlug) -> the    *)
(* products collection with its unique slug index.                         *)
(*                                                                         *)
(* Text is modelled as a sequence of one-character strings, so slugify is  *)
(* computed character by character as the code does.  A precomposed        *)
(* accented letter is written by its code point ("U+00E0" is a-grave) and  *)
(* a combining mark likewise ("U+0300").  The empty sequence stands for    *)
(* both the empty string and an absent (undefined) string: the code only   *)
(* ever tests these by truthiness.                                         *)
(*                                                                         *)
(* The read handlers and the locale rendering they share (shouldLocalize,  *)
(* buildLocalePriority, pickLocalizedValue, attachMetaFields) and the blog *)
(* scheduler started by bootstrap have specifications of their own.        *)
(***************************************************************************)
EXTENDS Integers, Sequences, FiniteSets, TLC

\* ------------------------------------------------------------------ text

UpperLetters ==
    <<"A","B","C","D","E","F","G","H","I","J","K","L","M",
      "N","O","P","Q","R","S","T","U","V","W","X","Y","Z">>

LowerLetters ==
    <<"a","b","c","d","e","f","g","h","i","j","k","l","m",
      "n","o","p","q","r","s","t","u","v","w","x","y","z">>

DigitChars == <<"0","1","2","3","4","5","6","7","8","9">>

Range(s) == {s[k] : k \in DOMAIN s}

IndexOf(c, s) == CHOOSE k \in DOMAIN s : s[k] = c

\* String.prototype.normalize("NFKD") on one character: a precomposed letter
\* becomes its base letter followed by the combining mark.
Decompose(c) ==
    CASE c = "U+00E0" -> <<"a", "U+0300">>
      [] c = "U+00C0" -> <<"A", "U+0300">>
      [] c = "U+00E9" -> <<"e", "U+0301">>
      [] c = "U+00EA" -> <<"e", "U+0302">>
      [] OTHER -> <<c>>

RECURSIVE NFKD(_)
NFKD(s) == IF s = <<>> THEN <<>> ELSE Decompose(Head(s)) \o NFKD(Tail(s))

\* The characters of the model's alphabet in the range U+0300..U+036F.
IsCombiningMark(c) == c \in {"U+0300", "U+0301", "U+0302"}

StripMarks(s) == SelectSeq(s, LAMBDA c : ~IsCombiningMark(c))

LowerChar(c) ==
    IF c \in Range(UpperLetters) THEN LowerLetters[IndexOf(c, UpperLetters)]
    ELSE c

ToLowerCase(s) == [k \in DOMAIN s |-> LowerChar(s[k])]

IsSpace(c) == c = " "

RECURSIVE TrimStart(_)
TrimStart(s) ==
    IF s # <<>> /\ IsSpace(Head(s)) THEN TrimStart(Tail(s)) ELSE s

RECURSIVE TrimEnd(_)
TrimEnd(s) ==
    IF s # <<>> /\ IsSpace(s[Len(s)]) THEN TrimEnd(SubSeq(s, 1, Len(s) - 1))
    ELSE s

Trim(s) == TrimEnd(TrimStart(s))

IsSlugChar(c) == c \in Range(LowerLetters) \cup Range(DigitChars)

\* .replace(/[^a-z0-9]+/g, "-"): every maximal run of other characters
\* becomes one hyphen.
RECURSIVE HyphenateRuns(_, _)
HyphenateRuns(s, inRun) ==
    IF s = <<>> THEN <<>>
    ELSE IF IsSlugChar(Head(s)) THEN <<Head(s)>> \o HyphenateRuns(Tail(s), FALSE)
    ELSE IF inRun THEN HyphenateRuns(Tail(s), TRUE)
    ELSE <<"-">> \o HyphenateRuns(Tail(s), TRUE)

\* .replace(/(^-|-$)+/g, ""): a hyphen at the start and a hyphen at the end
\* are removed (each global match is found in the original string).
StripEdgeHyphens(s) ==
    LET a == IF s # <<>> /\ s[1] = "-" THEN 2 ELSE 1
        b == IF Len(s) >= a /\ s[Len(s)] = "-" THEN Len(s) - 1 ELSE Len(s)
    IN  SubSeq(s, a, b)

slugify(text) ==
    StripEdgeHyphens(HyphenateRuns(Trim(ToLowerCase(StripMarks(NFKD(text)))), FALSE))

\* Template-literal rendering of the loop counter: decimal digits.
RECURSIVE NumberToString(_)
NumberToString(n) ==
    IF n < 10 THEN <<DigitChars[n + 1]>>
    ELSE NumberToString(n \div 10) \o <<DigitChars[(n % 10) + 1]>>

\* The schema's setters on slug: trim: true, lowercase: true.
SlugSetter(s) == ToLowerCase(Trim(s))


\* ----------------------------------------------------------- constants

DEFAULT_CATEGORY == "coffee"

DEFAULT_LOCALE == "vi"

FallbackToken == <<"p","r","o","d","u","c","t">>

\* ------------------------------------------------------ locale rendering

\* A locale code as text.
En == <<"e","n">>

Vi == <<"v","i">>

Fr == <<"f","r">>

\* The text of a key of a localized bundle.
KeyText(k) == IF k = "en" THEN En ELSE IF k = "vi" THEN Vi ELSE Fr

\* A localized bundle ({ vi?, en? }); an absent key holds the empty text.
Bundle(en, vi) == [en |-> en, vi |-> vi]

NoBundle == Bundle(<<>>, <<>>)

\* value?.[loc]: the bundle holds text under its exact keys only.
BundleGet(value, loc) ==
    IF loc = En THEN value.en ELSE IF loc = Vi THEN value.vi ELSE <<>>

\* Mutant of IsNonBlank: the value is not trimmed before the test.
IsNonEmpty(x) == x # <<>>

\* typeof x === "string" && x.trim().length > 0
IsNonBlank(x) == Trim(x) # <<>>

\* Array.from(new Set(s)): the first occurrence of every entry, in order.
RECURSIVE Unique(_)
Unique(s) ==
    IF s = <<>> THEN <<>>
    ELSE LET init == Unique(SubSeq(s, 1, Len(s) - 1))
             last == s[Len(s)]
         IN  IF \E k \in DOMAIN init : init[k] = last THEN init
             ELSE Append(init, last)

\* Mutant of LocalePriority: the Set is left out and every entry is kept.
LocalePriorityKeepAll(locale, defaultLocale) ==
    SelectSeq(<<locale, En, defaultLocale, Vi>>, IsNonBlank)

\* buildLocalePriority with the imported default locale as a parameter.
LocalePriority(locale, defaultLocale) ==
    Unique(SelectSeq(<<locale, En, defaultLocale, Vi>>, IsNonBlank))

buildLocalePriority(locale) == LocalePriority(locale, KeyText(DEFAULT_LOCALE))

\* The for loop of pickLocalizedValue; the empty text stands for undefined.
RECURSIVE FirstNonBlank(_, _)
FirstNonBlank(value, locales) ==
    IF locales = <<>> THEN <<>>
    ELSE IF IsNonBlank(BundleGet(value, Head(locales)))
    THEN BundleGet(value, Head(locales))
    ELSE FirstNonBlank(value, Tail(locales))

\* pickLocalizedValue on a bundle (the guards for a missing value and for a
\* value that is already a string come before the loop).
pickLocalizedValue(value, locales) ==
    IF value = NoBundle THEN <<>> ELSE FirstNonBlank(value, locales)

\* a || b on two optional strings.
OrElse(a, b) == IF a # <<>> THEN a ELSE b

\* attachMetaFields: the model's products carry no seoTitle_i18n,
\* seoDescription_i18n, shortDescription_i18n or description_i18n.
attachMetaFields(product, locale) ==
    LET locales == buildLocalePriority(locale)
    IN  [metaTitle |->
            OrElse(pickLocalizedValue(NoBundle, locales),
                   pickLocalizedValue(product.name, locales)),
         metaDescription |->
            OrElse(pickLocalizedValue(NoBundle, locales),
                   OrElse(pickLocalizedValue(NoBundle, locales),
                          pickLocalizedValue(NoBundle, locales)))]

\* The locales detectLocale matches against.
SupportedLocales == {En, Vi}

\* The segments of a comma-separated header.
RECURSIVE SplitComma(_, _)
SplitComma(s, cur) ==
    IF s = <<>> THEN <<cur>>
    ELSE IF Head(s) = "," THEN <<cur>> \o SplitComma(Tail(s), <<>>)
    ELSE SplitComma(Tail(s), Append(cur, Head(s)))

\* The primary language tag of a segment: the text before "-" or ";",
\* trimmed and lower-cased.
RECURSIVE UpTo(_)
UpTo(s) ==
    IF s = <<>> \/ Head(s) \in {"-", ";"} THEN <<>>
    ELSE <<Head(s)>> \o UpTo(Tail(s))

PrimaryTag(segment) == ToLowerCase(Trim(UpTo(Trim(segment))))

\* detectLocale: the first segment of the header that matches a supported
\* locale, or the process default.
RECURSIVE FirstSupported(_)
FirstSupported(segments) ==
    IF segments = <<>> THEN KeyText(DEFAULT_LOCALE)
    ELSE IF PrimaryTag(Head(segments)) \in SupportedLocales
    THEN PrimaryTag(Head(segments))
    ELSE FirstSupported(Tail(segments))

detectLocale(header) == FirstSupported(SplitComma(header, <<>>))

\* req.query.locale || detectLocale(req.headers["accept-language"])
RequestLocale(query, header) == OrElse(query, detectLocale(header))

\* Mutant of shouldLocalize: the header is not trimmed before the test.
shouldLocalizeUntrimmed(query, header) == query # <<>> \/ header # <<>>

\* shouldLocalize
shouldLocalize(query, header) == query # <<>> \/ Trim(header) # <<>>

\* localizeDoc with fields L_FIELDS on a product: the name bundle is
\* replaced by the text picked along the priority chain of the locale.
localizeDoc(product, locale) ==
    pickLocalizedValue(product.name, buildLocalePriority(locale))

\* ------------------------------------------------------ request inputs

\* Bound on the number of requests served in one behaviour.
MaxRequests == 3

Procs == {"r1", "r2"}

CaramelMacchiato ==
    <<"C","a","r","a","m","e","l"," ","M","a","c","c","h","i","a","t","o">>

\* "Ca phe" written with a-grave and e-circumflex.
CaPhe == <<"C","U+00E0"," ","p","h","U+00EA">>

Symbols == <<"!","!">>

NoText == <<>>

NoName == [en |-> NoText, vi |-> NoText]

CaPheSlug == <<"C","a"," ","P","h","e">>

\* A request body: hasName/hasSlug/hasPrice say whether the key is present;
\* category "" is an absent category.
Body(hasName, en, vi, category, hasSlug, slug, hasPrice, price) ==
    [hasName |-> hasName, name |-> [en |-> en, vi |-> vi],
     category |-> category, hasSlug |-> hasSlug, slug |-> slug,
     hasPrice |-> hasPrice, price |-> price]

\* The bodies sent to POST /products.
CreateBodies ==
    { Body(TRUE, CaramelMacchiato, NoText, "", FALSE, NoText, TRUE, 5),
      Body(TRUE, CaramelMacchiato, NoText, "tea", FALSE, NoText, TRUE, 5),
      Body(TRUE, CaramelMacchiato, CaPhe, "", TRUE, CaPheSlug, TRUE, 5),
      Body(TRUE, NoText, CaPhe, "tea", TRUE, CaramelMacchiato, TRUE, 5),
      Body(TRUE, Symbols, NoText, "", FALSE, NoText, TRUE, 5),
      Body(TRUE, NoText, NoText, "", FALSE, NoText, TRUE, 5) }

\* The bodies sent to PUT /products/:id.
UpdateBodies ==
    { Body(FALSE, NoText, NoText, "tea", FALSE, NoText, FALSE, 5),
      Body(FALSE, NoText, NoText, "", TRUE, NoText, FALSE, 5),
      Body(FALSE, NoText, NoText, "", TRUE, CaramelMacchiato, FALSE, 5),
      Body(TRUE, CaramelMacchiato, NoText, "", FALSE, NoText, FALSE, 5),
      Body(TRUE, NoText, NoText, "", FALSE, NoText, FALSE, 5),
      Body(FALSE, NoText, NoText, "", FALSE, NoText, TRUE, -1) }

\* The locale query parameter and the Accept-Language header sent with
\* POST /products and PUT /products/:id; they are read when the response
\* is built.
WriteQueries == {NoText, En}

WriteHeaders == {NoText, Vi}

\* ------------------------------------------------------------- state

VARIABLES
    store,      \* the products collection: _id -> stored document
    nextId,     \* the next _id a new document gets
    started,    \* requests started so far
    rq,         \* per request slot: position, inputs, in-memory document, response
    inp,        \* the inputs of a read request or of a rendering call
    out,        \* its response or result
    sched       \* the blog scheduler: its timer and the runs in flight

vars == <<store, nextId, started, rq, inp, out, sched>>

NoBody ==
    [hasName |-> FALSE, name |-> NoName, category |-> "",
     hasSlug |-> FALSE, slug |-> NoText, hasPrice |-> FALSE, price |-> 5]

NoDoc == [name |-> NoName, category |-> "", slug |-> NoText, price |-> 0]

Idle ==
    [pc |-> "idle", op |-> "none", id |-> 0, data |-> NoBody, doc |-> NoDoc,
     mod |-> {}, base |-> NoText, cand |-> NoText, i |-> 0,
     status |-> 0, err |-> "", vary |-> FALSE, rendered |-> FALSE,
     metaTitle |-> NoText]

\* No read request and no rendering call.
NoInput == [kind |-> "none"]

NoOutput == [kind |-> "none"]

\* The scheduler before bootstrap has started it.
NotScheduled == [timer |-> "none", inFlight |-> 0, ticks |-> 0, failed |-> 0]

\* The variables the product write path leaves alone.
others == <<inp, out, sched>>

Init ==
    /\ store = <<>>
    /\ nextId = 1
    /\ started = 0
    /\ rq = [p \in Procs |-> Idle]
    /\ inp = NoInput
    /\ out = NoOutput
    /\ sched = NotScheduled

\* ------------------------------------------------------------ helpers

\* doc.name_i18n?.en || doc.name_i18n?.[DEFAULT_LOCALE] || doc.name_i18n?.vi
NameBase(name) ==
    IF name.en # NoText THEN name.en
    ELSE IF name[DEFAULT_LOCALE] # NoText THEN name[DEFAULT_LOCALE]
    ELSE name.vi

\* Mutant of HttpStatus: the catch block without its 409 branch.
HttpStatusAlways400(err) == 400

\* The controller's catch block: the duplicate-name code is a 409, any other
\* error a 400.
HttpStatus(err) == IF err = "PRODUCT_NAME_DUPLICATE" THEN 409 ELSE 400

\* The response of a finished request; the loop locals are gone.
Respond(r, status, err) ==
    [r EXCEPT !.pc = "done", !.status = status, !.err = err,
              !.mod = {}, !.base = NoText, !.cand = NoText, !.i = 0]

Fail(r, err) == Respond(r, HttpStatus(err), err)

\* The success response of createProduct and updateProduct: the document
\* with attachMetaFields for the locale of the request; no header is set.
Rendered(r, doc, locale) ==
    [r EXCEPT !.rendered = TRUE,
              !.metaTitle = attachMetaFields(doc, locale).metaTitle]

\* Mutant of CreateShapeOk: the controller checks nothing.
CreateShapeAny(body) == TRUE

\* createProduct's checks of the body before it calls the repository.
CreateShapeOk(body) ==
    /\ body.hasName
    /\ (body.name.vi # NoText \/ body.name.en # NoText)
    /\ body.hasPrice
    /\ body.price >= 0

\* updateProduct's checks of the body before it calls the repository.
UpdateShapeOk(body) == ~body.hasPrice \/ body.price >= 0

\* Mutant of ensureUniqueName: every supplied locale must match (an AND
\* across locales).
ensureUniqueNameAllLocales(st, category, hasName, name, hasExclude, excludeId) ==
    /\ category # ""
    /\ hasName
    /\ (name.vi # NoText \/ name.en # NoText)
    /\ \E id \in DOMAIN st :
         /\ (hasExclude => id # excludeId)
         /\ st[id].category = category
         /\ (name.vi # NoText => st[id].name.vi = name.vi)
         /\ (name.en # NoText => st[id].name.en = name.en)

\* ensureUniqueName: TRUE when it throws PRODUCT_NAME_DUPLICATE.
ensureUniqueName(st, category, hasName, name, hasExclude, excludeId) ==
    /\ category # ""
    /\ hasName
    /\ (name.vi # NoText \/ name.en # NoText)
    /\ \E id \in DOMAIN st :
         /\ (hasExclude => id # excludeId)
         /\ st[id].category = category
         /\ \/ (name.vi # NoText /\ st[id].name.vi = name.vi)
            \/ (name.en # NoText /\ st[id].name.en = name.en)

\* Mutant of SlugHeldByOther: the existence check never reports a collision.
SlugNeverHeld(st, slug, self) == FALSE

\* ProductModel.exists({ slug: candidate, _id: { $ne: doc._id } })
SlugHeldByOther(st, slug, self) ==
    \E id \in DOMAIN st : id # self /\ st[id].slug = slug

\* Mutant of Candidate: the suffix runs one ahead of the counter.
CandidateOffByOne(base, i) == base \o <<"-">> \o NumberToString(i + 1)

\* Mutant of NextIndex: the counter is not incremented.
NextIndexStuck(i) == i

\* candidate = `${base}-${i++}`: the text of the candidate ...
Candidate(base, i) == base \o <<"-">> \o NumberToString(i)

\* ... and the counter after it.
NextIndex(i) == i + 1

\* pre("validate"): an empty slug is derived from the name, any other slug
\* is normalised.
PreValidate(doc) ==
    [doc EXCEPT !.slug =
        IF doc.slug = NoText
        THEN slugify(IF NameBase(doc.name) # NoText THEN NameBase(doc.name)
                     ELSE FallbackToken)
        ELSE slugify(doc.slug)]

\* The schema's validators on the paths the model carries: slug is required
\* (an empty string fails) and at most 160 characters; price is at least 0.
SchemaValid(doc) ==
    /\ doc.slug # NoText
    /\ Len(doc.slug) <= 160
    /\ doc.price >= 0

\* ensureUniqueSlug up to its loop: baseInput, base and the first candidate.
SlugBase(doc) ==
    slugify(IF doc.slug # NoText THEN doc.slug
            ELSE IF NameBase(doc.name) # NoText THEN NameBase(doc.name)
            ELSE FallbackToken)

FirstCandidate(base) == IF base # NoText THEN base ELSE FallbackToken

\* doc.save() from its start to the first database call of pre("save"):
\* pre("validate"), validation, then either the slug loop (isNew or slug
\* modified) or the write.
BeginSave(r, doc, mod, isNew) ==
    LET d == PreValidate(doc)
        m == IF d.slug # doc.slug THEN mod \cup {"slug"} ELSE mod
    IN  IF ~SchemaValid(d) THEN Fail([r EXCEPT !.doc = d], "ValidationError")
        ELSE IF isNew \/ "slug" \in m
        THEN [r EXCEPT !.pc = "slugLoop", !.doc = d, !.mod = m,
                       !.base = SlugBase(d),
                       !.cand = FirstCandidate(SlugBase(d)), !.i = 2]
        ELSE [r EXCEPT !.pc = "write", !.doc = d, !.mod = m]

\* new ProductModel({ ...data, category })
NewDoc(data, category) ==
    [name |-> data.name, category |-> category,
     slug |-> IF data.hasSlug THEN SlugSetter(data.slug) ELSE NoText,
     price |-> data.price]

\* Object.assign(doc, data)
Assign(doc, data) ==
    [name |-> IF data.hasName THEN data.name ELSE doc.name,
     category |-> IF data.category # "" THEN data.category ELSE doc.category,
     slug |-> IF data.hasSlug THEN SlugSetter(data.slug) ELSE doc.slug,
     price |-> IF data.hasPrice THEN data.price ELSE doc.price]

\* hasSlugInBody
HasSlugInBody(data) == data.hasSlug /\ Trim(data.slug) # NoText

\* productRepo.update from Object.assign to the slug it leaves on the doc.
AssignAndSlug(old, data) ==
    LET a == Assign(old, data)
    IN  IF HasSlugInBody(data) THEN [a EXCEPT !.slug = slugify(data.slug)]
        ELSE IF NameBase(a.name) # NoText /\ NameBase(a.name) # NameBase(old.name)
        THEN [a EXCEPT !.slug = slugify(NameBase(a.name))]
        ELSE a

\* The paths mongoose marks modified: a set that changes the value.
Modified(old, data) ==
    LET a == Assign(old, data)
        b == AssignAndSlug(old, data)
    IN  {f \in {"name", "category", "price"} : a[f] # old[f]}
          \cup (IF a.slug # old.slug \/ b.slug # a.slug THEN {"slug"} ELSE {})

\* Mutant of DuplicateKey: the collection has no unique index on slug.
NoUniqueIndex(st, slug, self) == FALSE

\* The unique index on slug: the write of `slug` under `self` is refused.
DuplicateKey(st, slug, self) ==
    \E id \in DOMAIN st : id # self /\ st[id].slug = slug

\* $set of the modified paths on the stored document.
Merge(stored, doc, mod) ==
    [f \in DOMAIN stored |-> IF f \in mod THEN doc[f] ELSE stored[f]]

Remove(st, id) == [k \in DOMAIN st \ {id} |-> st[k]]

Put(st, id, doc) == [k \in DOMAIN st \cup {id} |-> IF k = id THEN doc ELSE st[k]]

\* ------------------------------------------------------------ actions

CanStart(p) == rq[p].pc \in {"idle", "done"} /\ started < MaxRequests

\* productController.createProduct up to the repository's first query.
CreateProduct(p, body) ==
    /\ CanStart(p)
    /\ started' = started + 1
    /\ LET r == [Idle EXCEPT !.op = "create", !.data = body]
       IN  rq' = [rq EXCEPT ![p] =
                IF CreateShapeOk(body) THEN [r EXCEPT !.pc = "nameCheck"]
                ELSE Respond(r, 400, "VALIDATION")]
    /\ UNCHANGED <<store, nextId, others>>

\* productController.updateProduct up to productRepo.update's findById.
UpdateProduct(p, id, body) ==
    /\ CanStart(p)
    /\ started' = started + 1
    /\ LET r == [Idle EXCEPT !.op = "update", !.id = id, !.data = body]
       IN  rq' = [rq EXCEPT ![p] =
                IF UpdateShapeOk(body) THEN [r EXCEPT !.pc = "findById"]
                ELSE Respond(r, 400, "VALIDATION")]
    /\ UNCHANGED <<store, nextId, others>>

\* productController.deleteProduct: findByIdAndDelete, then always 200.
DeleteProduct(p, id) ==
    /\ CanStart(p)
    /\ started' = started + 1
    /\ store' = Remove(store, id)
    /\ rq' = [rq EXCEPT ![p] =
                Respond([Idle EXCEPT !.op = "delete", !.id = id], 200, "")]
    /\ UNCHANGED <<nextId, others>>

\* productRepo.update: ProductModel.findById(id); null is a 404.
FindById(p) ==
    /\ rq[p].pc = "findById"
    /\ rq' = [rq EXCEPT ![p] =
                IF rq[p].id \in DOMAIN store
                THEN [rq[p] EXCEPT !.pc = "nameCheck", !.doc = store[rq[p].id]]
                ELSE Respond(rq[p], 404, "NOT_FOUND")]
    /\ UNCHANGED <<store, nextId, started, others>>

\* The ensureUniqueName query and the code that follows it up to the next
\* database call: the document is built (create) or assigned (update), and
\* doc.save() runs its pre-validate hook and validation.
CheckName(p) ==
    LET r == rq[p]
        category == IF r.data.category # "" THEN r.data.category
                    ELSE IF r.op = "create" THEN DEFAULT_CATEGORY
                    ELSE r.doc.category
        hasName == r.op = "update" \/ r.data.hasName
        name == IF r.data.hasName THEN r.data.name ELSE r.doc.name
    IN  /\ r.pc = "nameCheck"
        /\ IF ensureUniqueName(store, category, hasName, name, r.op = "update", r.id)
           THEN /\ rq' = [rq EXCEPT ![p] = Fail(r, "PRODUCT_NAME_DUPLICATE")]
                /\ UNCHANGED nextId
           ELSE IF r.op = "create"
           THEN /\ rq' = [rq EXCEPT ![p] =
                        BeginSave([r EXCEPT !.id = nextId],
                                  NewDoc(r.data, category), {}, TRUE)]
                /\ nextId' = nextId + 1
           ELSE /\ rq' = [rq EXCEPT ![p] =
                        BeginSave(r, AssignAndSlug(r.doc, r.data),
                                  Modified(r.doc, r.data), FALSE)]
                /\ UNCHANGED nextId
        /\ UNCHANGED <<store, started, others>>

\* One evaluation of the while condition of ensureUniqueSlug and what
\* follows it: the next candidate, or doc.slug = candidate.
SlugLoop(p) ==
    LET r == rq[p]
    IN  /\ r.pc = "slugLoop"
        /\ rq' = [rq EXCEPT ![p] =
                IF SlugHeldByOther(store, r.cand, r.id)
                THEN [r EXCEPT !.cand = Candidate(r.base, r.i), !.i = NextIndex(r.i)]
                ELSE [r EXCEPT !.pc = "write",
                               !.doc = [r.doc EXCEPT !.slug = r.cand],
                               !.mod = IF r.cand # r.doc.slug
                                       THEN r.mod \cup {"slug"} ELSE r.mod]]
        /\ UNCHANGED <<store, nextId, started, others>>

\* The write of doc.save(): an insert (create) or a $set of the modified
\* paths (update), refused by the unique slug index on a duplicate.
Save(p) ==
    LET r == rq[p]
    IN  /\ r.pc = "write"
        /\ IF r.op = "create"
           THEN IF DuplicateKey(store, r.doc.slug, r.id)
                THEN /\ rq' = [rq EXCEPT ![p] = Fail(r, "E11000")]
                     /\ UNCHANGED store
                ELSE /\ store' = Put(store, r.id, r.doc)
                     /\ \E query \in WriteQueries, header \in WriteHeaders :
                          rq' = [rq EXCEPT ![p] =
                                   Rendered(Respond(r, 201, ""), r.doc,
                                            RequestLocale(query, header))]
           ELSE IF r.id \notin DOMAIN store
                THEN /\ rq' = [rq EXCEPT ![p] = Fail(r, "DocumentNotFoundError")]
                     /\ UNCHANGED store
                ELSE IF "slug" \in r.mod /\ DuplicateKey(store, r.doc.slug, r.id)
                THEN /\ rq' = [rq EXCEPT ![p] = Fail(r, "E11000")]
                     /\ UNCHANGED store
                ELSE /\ store' = Put(store, r.id, Merge(store[r.id], r.doc, r.mod))
                     /\ \E query \in WriteQueries, header \in WriteHeaders :
                          rq' = [rq EXCEPT ![p] =
                                   Rendered(Respond(r, 200, ""), r.doc,
                                            RequestLocale(query, header))]
        /\ UNCHANGED <<nextId, started, others>>

Targets == DOMAIN store \cup {nextId}

Step(p) ==
    \/ \E body \in CreateBodies : CreateProduct(p, body)
    \/ \E id \in Targets, body \in UpdateBodies : UpdateProduct(p, id, body)
    \/ \E id \in Targets : DeleteProduct(p, id)
    \/ FindById(p)
    \/ CheckName(p)
    \/ SlugLoop(p)
    \/ Save(p)

Next == \E p \in Procs : Step(p)

\* Requests overlap freely: every await is a point where another request runs.
Spec == Init /\ [][Next]_vars

\* No request of another slot is in flight.
Quiet(p) == \A q \in Procs \ {p} : rq[q].pc \in {"idle", "done"}

SerialNext ==
    \E p \in Procs :
        \/ Quiet(p) /\ \E body \in CreateBodies : CreateProduct(p, body)
        \/ Quiet(p) /\ \E id \in Targets, body \in UpdateBodies :
                            UpdateProduct(p, id, body)
        \/ Quiet(p) /\ \E id \in Targets : DeleteProduct(p, id)
        \/ Quiet(p) /\ FindById(p)
        \/ Quiet(p) /\ CheckName(p)
        \/ Quiet(p) /\ SlugLoop(p)
        \/ Quiet(p) /\ Save(p)

\* One request at a time: a request starts only when no other is in flight.
SerialSpec == Init /\ [][SerialNext]_vars

\* One request at a time, and the event loop resumes every awaited query of
\* the slug loop.
FairSerialSpec ==
    SerialSpec /\ \A p \in Procs : WF_vars(Quiet(p) /\ SlugLoop(p))

\* ------------------------------------------------------- read handlers

CaPheStored == <<"c","a","-","p","h","e">>

\* The product POST /products stores for the body with both names.
BothNames ==
    [name |-> Bundle(CaramelMacchiato, CaPhe), category |-> "coffee",
     slug |-> CaPheStored, price |-> 5]

\* The product it stores for the body with the vi name only.
ViOnly ==
    [name |-> Bundle(NoText, CaPhe), category |-> "tea",
     slug |-> slugify(CaramelMacchiato), price |-> 5]

\* The collections the read handlers are run against.
SeedStores == {<<>>, Put(<<>>, 1, BothNames), Put(Put(<<>>, 1, BothNames), 2, ViOnly)}

\* The :slug parameter, the locale query parameter and the Accept-Language
\* header of a read request.
ReadSlugs == {CaPheStored, slugify(CaramelMacchiato)}

ReadQueries == {NoText, Vi, <<"V","I">>, <<" ","v","i"," ">>, En}

ReadHeaders == {NoText, <<" ">>, En, <<" ","V","I"," ">>, <<"f","r",",","e","n">>}

ReadInit ==
    /\ store \in SeedStores
    /\ nextId = Cardinality(DOMAIN store) + 1
    /\ started = 0
    /\ rq = [p \in Procs |-> Idle]
    /\ inp \in {[kind |-> "read", slug |-> slug, query |-> q, header |-> h] :
                    slug \in ReadSlugs, q \in ReadQueries, h \in ReadHeaders}
    /\ out = NoOutput
    /\ sched = NotScheduled

\* One product as a read handler returns it: attachMetaFields, then
\* localizeDoc unless localization is skipped.
View(product, query, header) ==
    LET locale == RequestLocale(query, header)
        meta == attachMetaFields(product, locale)
        localize == shouldLocalize(query, header)
    IN  [slug |-> product.slug,
         metaTitle |-> meta.metaTitle,
         metaDescription |-> meta.metaDescription,
         localized |-> localize,
         name_i18n |-> IF localize THEN NoBundle ELSE product.name,
         name |-> IF localize THEN localizeDoc(product, locale) ELSE NoText]

\* productRepo.getBySlug: the stored products with the slug (all the
\* model's products are published, the schema's default).
getBySlug(st, slug) == {id \in DOMAIN st : st[id].slug = slug}

\* productController.getProductBySlug
GetProductBySlug ==
    /\ inp.kind = "read"
    /\ out = NoOutput
    /\ LET found == getBySlug(store, inp.slug)
       IN  out' = IF found = {}
                  THEN [kind |-> "getProductBySlug", status |-> 404,
                        vary |-> FALSE, items |-> <<>>]
                  ELSE [kind |-> "getProductBySlug", status |-> 200,
                        vary |-> TRUE,
                        items |-> <<View(store[CHOOSE id \in found : TRUE],
                                         inp.query, inp.header)>>]
    /\ UNCHANGED <<store, nextId, started, rq, inp, sched>>

\* productRepo.list with its defaults: every product, newest first.
RECURSIVE NewestFirst(_, _)
NewestFirst(st, n) ==
    IF n = 0 THEN <<>>
    ELSE IF n \in DOMAIN st THEN <<st[n]>> \o NewestFirst(st, n - 1)
    ELSE NewestFirst(st, n - 1)

\* productController.getProducts
GetProducts ==
    /\ inp.kind = "read"
    /\ out = NoOutput
    /\ LET items == NewestFirst(store, nextId)
       IN  out' = [kind |-> "getProducts", status |-> 200, vary |-> TRUE,
                   items |-> [k \in DOMAIN items |->
                                 View(items[k], inp.query, inp.header)]]
    /\ UNCHANGED <<store, nextId, started, rq, inp, sched>>

ReadNext == GetProductBySlug \/ GetProducts

\* Read requests against a collection the write path has filled.
ReadSpec == ReadInit /\ [][ReadNext]_vars

\* ------------------------------------------------------ rendering calls

\* The bundles and priority chains pickLocalizedValue is called with.
PickTexts == {NoText, <<" ">>, CaramelMacchiato, <<" ","a"," ">>}

PickBundles == {Bundle(en, vi) : en \in PickTexts, vi \in {NoText, <<" ">>, CaPhe}}

PickChains ==
    {<<>>, <<En>>, <<Vi>>, <<Fr>>, <<En, Vi>>, <<Vi, En>>, <<Fr, En, Vi>>,
     <<<<"V","I">>, En, Vi>>, <<Fr, <<" ","v","i"," ">>>>}

PickInit ==
    /\ store = <<>>
    /\ nextId = 1
    /\ started = 0
    /\ rq = [p \in Procs |-> Idle]
    /\ inp \in {[kind |-> "pick", value |-> b, locales |-> c] :
                    b \in PickBundles, c \in PickChains}
    /\ out = NoOutput
    /\ sched = NotScheduled

\* A call of pickLocalizedValue.
PickLocalizedValue ==
    /\ inp.kind = "pick"
    /\ out = NoOutput
    /\ out' = [kind |-> "pickLocalizedValue",
               value |-> pickLocalizedValue(inp.value, inp.locales)]
    /\ UNCHANGED <<store, nextId, started, rq, inp, sched>>

PickSpec == PickInit /\ [][PickLocalizedValue]_vars

\* The preferred locales and default locales buildLocalePriority is
\* computed for.
PreferredLocales ==
    {NoText, <<" ">>, <<" "," ">>, En, Vi, Fr, <<"V","I">>, <<"E","N">>,
     <<" ","v","i"," ">>, <<" ","e","n">>, <<"f","r"," ">>, <<"d","e">>}

DefaultLocales == {Vi, En, Fr, NoText, <<" ">>}

PriorityInit ==
    /\ store = <<>>
    /\ nextId = 1
    /\ started = 0
    /\ rq = [p \in Procs |-> Idle]
    /\ inp \in {[kind |-> "priority", locale |-> l, defaultLocale |-> d] :
                    l \in PreferredLocales, d \in DefaultLocales}
    /\ out = NoOutput
    /\ sched = NotScheduled

\* A call of buildLocalePriority in a process with the given default locale.
BuildLocalePriority ==
    /\ inp.kind = "priority"
    /\ out = NoOutput
    /\ out' = [kind |-> "buildLocalePriority",
               chain |-> LocalePriority(inp.locale, inp.defaultLocale)]
    /\ UNCHANGED <<store, nextId, started, rq, inp, sched>>

PrioritySpec == PriorityInit /\ [][BuildLocalePriority]_vars

\* ------------------------------------------------------- blog scheduler

\* Bound on the interval ticks of one behaviour.
MaxTicks == 4

\* startBlogScheduler: the immediate runOnce, then setInterval.
StartBlogScheduler ==
    /\ sched.timer = "none"
    /\ sched' = [sched EXCEPT !.timer = "set", !.inFlight = @ + 1]
    /\ UNCHANGED <<store, nextId, started, rq, inp, out>>

\* An interval tick: the timer calls runOnce.
Tick ==
    /\ sched.timer = "set"
    /\ sched.ticks < MaxTicks
    /\ sched' = [sched EXCEPT !.ticks = @ + 1, !.inFlight = @ + 1]
    /\ UNCHANGED <<store, nextId, started, rq, inp, out>>

\* blogRepo.publishScheduled of a run resolves.
RunCompletes ==
    /\ sched.inFlight > 0
    /\ sched' = [sched EXCEPT !.inFlight = @ - 1]
    /\ UNCHANGED <<store, nextId, started, rq, inp, out>>

\* blogRepo.publishScheduled of a run rejects: the error is logged.
RunFails ==
    /\ sched.inFlight > 0
    /\ sched' = [sched EXCEPT !.inFlight = @ - 1, !.failed = @ + 1]
    /\ UNCHANGED <<store, nextId, started, rq, inp, out>>

\* bootstrap's shutdown: clearInterval(scheduler).
Shutdown ==
    /\ sched.timer = "set"
    /\ sched' = [sched EXCEPT !.timer = "cleared"]
    /\ UNCHANGED <<store, nextId, started, rq, inp, out>>

SchedNext == StartBlogScheduler \/ Tick \/ RunCompletes \/ RunFails \/ Shutdown

SchedSpec == Init /\ [][SchedNext]_vars

\* ------------------------------------------------------------ claims

\* The request of slot p took a step.
Acted(p) == rq'[p] # rq[p]

CaramelSlug ==
    <<"c","a","r","a","m","e","l","-","m","a","c","c","h","i","a","t","o">>

CaramelSlug2 == CaramelSlug \o <<"-","2">>

\* C1: no two stored products have the same slug, in every state reachable
\* by any interleaving of creates, updates and deletes.
SlugsUnique ==
    \A a, b \in DOMAIN store : a # b => store[a].slug # store[b].slug

\* C1 witness: two products are stored and the unique index has refused a
\* write of a slug that was taken between the check and the write.
SlugsUniqueWitness ==
    /\ Cardinality(DOMAIN store) >= 2
    /\ \E p \in Procs : rq[p].pc = "done" /\ rq[p].err = "E11000"

\* Two stored products of one category with an equal non-empty name in a locale.
SameNameInCategory(a, b) ==
    /\ store[a].category = store[b].category
    /\ \/ (store[a].name.en # NoText /\ store[a].name.en = store[b].name.en)
       \/ (store[a].name.vi # NoText /\ store[a].name.vi = store[b].name.vi)

\* C2: no reachable state holds two distinct products of the same category
\* whose en names, or whose vi names, are equal and non-empty.
NameUniquePerCategory ==
    \A a, b \in DOMAIN store : a # b => ~SameNameInCategory(a, b)

\* The category a create stores.
CreateCategory(data) ==
    IF data.category # "" THEN data.category ELSE "coffee"

\* C3: a create run in isolation is rejected with PRODUCT_NAME_DUPLICATE
\* whenever a stored product of its category has an equal name in a locale
\* the body supplies, and is not rejected for its name when no stored product
\* of its category has one.
CreateRejectsDuplicateName ==
    [][\A p \in Procs :
        (rq[p].op = "create" /\ rq[p].pc = "nameCheck" /\ Acted(p)) =>
            LET d == rq[p].data
                hit == \E id \in DOMAIN store :
                          /\ store[id].category = CreateCategory(d)
                          /\ \/ (d.name.vi # NoText /\ store[id].name.vi = d.name.vi)
                             \/ (d.name.en # NoText /\ store[id].name.en = d.name.en)
            IN  /\ hit => /\ rq'[p].pc = "done"
                          /\ rq'[p].err = "PRODUCT_NAME_DUPLICATE"
                /\ ~hit => rq'[p].err # "PRODUCT_NAME_DUPLICATE"]_vars

\* C3 witness: a create was rejected for a name that matches a stored product
\* of its category in one locale only, while a product of another category
\* holds the same name.
CreateRejectsDuplicateNameWitness ==
    \E p \in Procs :
        /\ rq[p].op = "create" /\ rq[p].pc = "done"
        /\ rq[p].err = "PRODUCT_NAME_DUPLICATE"
        /\ \E id \in DOMAIN store :
              /\ store[id].category = CreateCategory(rq[p].data)
              /\ store[id].name.en = rq[p].data.name.en
              /\ store[id].name.vi # rq[p].data.name.vi
        /\ \E a, b \in DOMAIN store :
              /\ store[a].category # store[b].category
              /\ store[a].name.en = store[b].name.en

\* C4: the step that rejects a create or an update with the duplicate-name
\* conflict leaves the store as it was and answers 409; the rejected request
\* takes no further step, and only a request at its write (or a delete)
\* changes the store.
ConflictMutatesNothing ==
    [][/\ \A p \in Procs :
            /\ (Acted(p) /\ rq'[p].err = "PRODUCT_NAME_DUPLICATE") =>
                  /\ store' = store
                  /\ rq[p].pc = "nameCheck"
                  /\ rq'[p].pc = "done"
                  /\ rq'[p].status = 409
            /\ (Acted(p) /\ rq[p].err = "PRODUCT_NAME_DUPLICATE") =>
                  rq[p].pc = "done" /\ started' = started + 1
       /\ store' # store =>
            \E p \in Procs :
               /\ rq'[p].pc = "done" /\ rq'[p].err = ""
               /\ \/ Acted(p) /\ rq[p].pc = "write"
                  \/ started' = started + 1 /\ rq'[p].op = "delete"]_vars

\* C4 witness: an update was rejected with the conflict while its target is
\* stored.
ConflictMutatesNothingWitness ==
    \E p \in Procs :
        /\ rq[p].op = "update" /\ rq[p].pc = "done" /\ rq[p].status = 409
        /\ rq[p].id \in DOMAIN store
        /\ store[rq[p].id] = rq[p].doc

\* Slot p's slug is held by a stored product other than its own.
HeldByOther(p, slug) ==
    \E id \in DOMAIN store : id # rq[p].id /\ store[id].slug = slug

\* The k-th slug in the trial order base, base-2, base-3, ...
Trial(base, k) ==
    IF k = 1 THEN base ELSE base \o <<"-">> \o NumberToString(k)

\* C5: with no concurrent writer, the slug ensureUniqueSlug assigns is held
\* by no other stored product and is the first free one in the trial order
\* base, base-2, base-3, ...; a product named {en: "Caramel Macchiato"} with
\* no explicit slug gets "caramel-macchiato" when it is free and
\* "caramel-macchiato-2" when only the plain slug is held.
AssignsFirstFreeSlug ==
    [][\A p \in Procs :
        (rq[p].pc = "slugLoop" /\ rq'[p].pc = "write") =>
            LET slug == rq'[p].doc.slug
            IN  /\ ~HeldByOther(p, slug)
                /\ \E k \in 1..(Cardinality(DOMAIN store) + 1) :
                      /\ slug = Trial(rq[p].base, k)
                      /\ \A j \in 1..(k - 1) : HeldByOther(p, Trial(rq[p].base, j))
                /\ (/\ rq[p].op = "create"
                    /\ rq[p].data.name.en = CaramelMacchiato
                    /\ ~rq[p].data.hasSlug) =>
                      /\ ~HeldByOther(p, CaramelSlug) => slug = CaramelSlug
                      /\ (HeldByOther(p, CaramelSlug) /\ ~HeldByOther(p, CaramelSlug2))
                            => slug = CaramelSlug2]_vars

\* C5 witness: the plain slug and its suffix 2 are held by other products
\* and a create has been given suffix 3.
AssignsFirstFreeSlugWitness ==
    \E p \in Procs :
        /\ rq[p].op = "create" /\ rq[p].pc = "done" /\ rq[p].status = 201
        /\ rq[p].doc.slug = CaramelSlug \o <<"-","3">>
        /\ HeldByOther(p, CaramelSlug)
        /\ HeldByOther(p, CaramelSlug2)

\* The body carries no explicit slug or the stored one.
KeepsExplicitSlug(data, stored) ==
    \/ ~data.hasSlug
    \/ Trim(data.slug) = NoText
    \/ slugify(data.slug) = stored.slug

\* The first non-empty of the en, default-locale and vi names.
DerivedFromName(name) ==
    IF name.en # NoText THEN name.en
    ELSE IF name[DEFAULT_LOCALE] # NoText THEN name[DEFAULT_LOCALE]
    ELSE name.vi

\* The body leaves the name the slug is derived from as stored.
KeepsDerivedName(data, stored) ==
    ~data.hasName \/ DerivedFromName(data.name) = DerivedFromName(stored.name)

\* C6: a successful update whose body changes neither the explicit slug nor
\* the name the slug is derived from leaves the stored slug as it was.
SlugStable ==
    [][\A p \in Procs :
        (/\ rq[p].op = "update" /\ rq[p].pc = "write" /\ Acted(p)
         /\ rq'[p].status = 200
         /\ KeepsExplicitSlug(rq[p].data, store[rq[p].id])
         /\ KeepsDerivedName(rq[p].data, store[rq[p].id]))
            => store'[rq[p].id].slug = store[rq[p].id].slug]_vars

\* The text a create derives its slug from: the explicit slug, else the name.
DerivedBase(data) ==
    IF data.hasSlug /\ Trim(data.slug) # NoText THEN data.slug
    ELSE DerivedFromName(data.name)

FallbackSlugs ==
    {FallbackToken} \cup
        {FallbackToken \o <<"-">> \o NumberToString(n) : n \in 2..(MaxRequests + 1)}

\* C7: a create whose derived base normalizes to the empty string succeeds
\* and stores the fallback token "product", or "product-n" when that is held.
EmptyBaseGetsFallback ==
    \A p \in Procs :
        (/\ rq[p].op = "create" /\ rq[p].pc = "done"
         /\ CreateShapeOk(rq[p].data)
         /\ rq[p].err # "PRODUCT_NAME_DUPLICATE"
         /\ slugify(DerivedBase(rq[p].data)) = NoText)
            => /\ rq[p].status = 201
               /\ rq[p].doc.slug \in FallbackSlugs

\* C8: a create that reaches its write after another product has taken its
\* slug is refused by the unique index: the store is unchanged, the caller
\* gets the error (400), and the request takes no further step (no retry of
\* the slug loop or of the save).
RaceLoserFails ==
    [][\A p \in Procs :
        /\ (rq[p].op = "create" /\ rq[p].pc = "write" /\ Acted(p)
            /\ HeldByOther(p, rq[p].doc.slug))
              => /\ store' = store
                 /\ rq'[p].pc = "done"
                 /\ rq'[p].err = "E11000"
                 /\ rq'[p].status = 400
        /\ (Acted(p) /\ rq[p].err = "E11000")
              => rq[p].pc = "done" /\ started' = started + 1]_vars

\* C8 witness: two creates chose the same slug; one is stored and answered
\* 201, the other was refused and is not stored.
RaceLoserFailsWitness ==
    \E p, q \in Procs :
        /\ rq[p].op = "create" /\ rq[p].pc = "done" /\ rq[p].err = "E11000"
        /\ rq[q].op = "create" /\ rq[q].pc = "done" /\ rq[q].status = 201
        /\ rq[p].doc.slug = rq[q].doc.slug
        /\ rq[p].id \notin DOMAIN store
        /\ rq[q].id \in DOMAIN store
        /\ store[rq[q].id].slug = rq[q].doc.slug

\* C9: with no concurrent writer the slug loop never rejects, and a create
\* or update whose candidate was held by another product is written
\* successfully under the suffixed slug.
CollisionNeverSurfaces ==
    [][\A p \in Procs :
        /\ (rq[p].pc = "slugLoop" /\ Acted(p))
              => /\ rq'[p].pc \in {"slugLoop", "write"}
                 /\ rq'[p].err = ""
                 /\ store' = store
        /\ (rq[p].pc = "write" /\ Acted(p))
              => /\ rq'[p].status \in {200, 201}
                 /\ rq'[p].err = ""
                 /\ rq[p].id \in DOMAIN store'
                 /\ HeldByOther(p, rq[p].base) =>
                       \E k \in 2..(Cardinality(DOMAIN store) + 1) :
                           store'[rq[p].id].slug = Trial(rq[p].base, k)]_vars

\* C9 witness: an update that set an explicit slug held by another product
\* succeeded and stored the slug with suffix 2.
CollisionNeverSurfacesWitness ==
    \E p \in Procs :
        /\ rq[p].op = "update" /\ rq[p].pc = "done" /\ rq[p].status = 200
        /\ rq[p].data.hasSlug
        /\ slugify(rq[p].data.slug) = CaramelSlug
        /\ HeldByOther(p, CaramelSlug)
        /\ rq[p].id \in DOMAIN store
        /\ store[rq[p].id].slug = CaramelSlug2

\* C10: the suffix loop of ensureUniqueSlug terminates: a request in the
\* loop eventually leaves it with a candidate reported free.
SlugLoopTerminates ==
    \A p \in Procs : (rq[p].pc = "slugLoop") ~> (rq[p].pc = "write")

\* C10 witness: a request left the loop after two collisions.
SlugLoopTerminatesWitness ==
    \E p \in Procs : rq[p].pc = "write" /\ rq[p].i = 4

\* Slot p starts a request in this step.
Starts(p) ==
    /\ started' = started + 1
    /\ rq[p].pc \in {"idle", "done"}
    /\ rq'[p] # rq[p]

\* The body of a create or an update passes the controller's checks.
ShapeAccepted(op, data) ==
    IF op = "create"
    THEN /\ data.hasName
         /\ (data.name.vi # NoText \/ data.name.en # NoText)
         /\ data.hasPrice
         /\ data.price >= 0
    ELSE data.hasPrice => data.price >= 0

\* Another stored product of the category slot p writes to holds one of the
\* names it writes.
NameTaken(p) ==
    LET r == rq[p]
        category == IF r.data.category # "" THEN r.data.category
                    ELSE IF r.op = "create" THEN "coffee" ELSE r.doc.category
        name == IF r.data.hasName THEN r.data.name ELSE r.doc.name
    IN  \E id \in DOMAIN store :
            /\ (r.op = "update" => id # r.id)
            /\ store[id].category = category
            /\ \/ (name.vi # NoText /\ store[id].name.vi = name.vi)
               \/ (name.en # NoText /\ store[id].name.en = name.en)

\* C11: a create or update request goes from shape validation to the name
\* check, from there to slug assignment, from there to the storage write; a
\* request rejected at shape validation or at the name check never reaches
\* slug assignment or the write, and a create or update changes the store
\* only at its write, after its own name check has passed.
StepsInOrder ==
    [][/\ \A p \in Procs :
            /\ (Starts(p) /\ rq'[p].op \in {"create", "update"}) =>
                  IF ShapeAccepted(rq'[p].op, rq'[p].data)
                  THEN rq'[p].pc \in {"nameCheck", "findById"}
                  ELSE rq'[p].pc = "done" /\ rq'[p].status = 400
            /\ (Acted(p) /\ rq'[p].pc = "nameCheck") =>
                  /\ ShapeAccepted(rq'[p].op, rq'[p].data)
                  /\ rq[p].pc \in {"idle", "done", "findById"}
            /\ (Acted(p) /\ rq'[p].pc = "slugLoop") =>
                  rq[p].pc \in {"nameCheck", "slugLoop"}
            /\ (Acted(p) /\ rq'[p].pc = "write") =>
                  rq[p].pc \in {"nameCheck", "slugLoop"}
            /\ (Acted(p) /\ rq[p].pc = "nameCheck") =>
                  IF NameTaken(p)
                  THEN rq'[p].pc = "done" /\ rq'[p].status = 409
                  ELSE rq'[p].pc \in {"slugLoop", "write", "done"}
            /\ (Acted(p) /\ rq[p].pc = "done") => Starts(p)
       /\ store' # store =>
            \E p \in Procs :
               \/ Acted(p) /\ rq[p].pc = "write"
               \/ /\ started' = started + 1
                  /\ rq'[p].op = "delete" /\ rq'[p].pc = "done"]_vars

\* C11 witness: one request is at its write after two rounds of the slug
\* loop while another was rejected at the name check.
StepsInOrderWitness ==
    \E p, q \in Procs :
        /\ rq[p].pc = "write" /\ rq[p].i >= 3
        /\ rq[q].pc = "done" /\ rq[q].status = 409

\* C12: an update, a delete or a fetch by slug of a product that is not in
\* the store ends with 404 and leaves the store unchanged.
MissingIsNotFound ==
    [][/\ \A p \in Procs :
            /\ (Acted(p) /\ rq[p].pc = "findById" /\ rq[p].id \notin DOMAIN store) =>
                  /\ rq'[p].pc = "done" /\ rq'[p].status = 404
                  /\ store' = store
            /\ (Starts(p) /\ rq'[p].op = "delete" /\ rq'[p].id \notin DOMAIN store) =>
                  /\ rq'[p].pc = "done" /\ rq'[p].status = 404
                  /\ store' = store
       /\ (out'.kind = "getProductBySlug"
             /\ \A id \in DOMAIN store : store[id].slug # inp.slug) =>
                  out'.status = 404 /\ store' = store]_vars

\* C13: every successful response whose body was rendered for the locale
\* of the request carries Vary: Accept-Language, the create and update
\* responses included.
RenderedResponsesVary ==
    /\ \A p \in Procs :
          (rq[p].pc = "done" /\ rq[p].status \in {200, 201} /\ rq[p].rendered)
              => rq[p].vary
    /\ (out.kind \in {"getProductBySlug", "getProducts"} /\ out.status = 200)
          => out.vary

\* The locale code a preference names once trimmed and lower-cased.
Normalized(pref) ==
    LET t == TrimEnd(TrimStart(pref))
    IN  [k \in DOMAIN t |->
            IF t[k] = "V" THEN "v" ELSE IF t[k] = "I" THEN "i"
            ELSE IF t[k] = "E" THEN "e" ELSE IF t[k] = "N" THEN "n" ELSE t[k]]

\* The preference of the read request in inp: the query override, else the
\* header.
Preference == IF inp.query # NoText THEN inp.query ELSE inp.header

\* C14: a read whose locale preference is "vi" up to letter case and
\* surrounding whitespace renders a product that holds vi text with its vi
\* text, as the exact code does.
CaseAndSpaceStillMatch ==
    (out.kind = "getProductBySlug" /\ out.status = 200
        /\ Normalized(Preference) = Vi) =>
            \A id \in DOMAIN store :
                (store[id].slug = inp.slug /\ store[id].name.vi # NoText) =>
                    /\ out.items[1].metaTitle = store[id].name.vi
                    /\ out.items[1].localized
                    /\ out.items[1].name = store[id].name.vi

\* C15: every stored product holds non-empty text in the vi or the en
\* locale of its name.
StoredNameNonEmpty ==
    \A id \in DOMAIN store :
        store[id].name.vi # NoText \/ store[id].name.en # NoText

\* The text a bundle holds under a key of a chain.
ValueAt(value, loc) ==
    IF loc = <<"e","n">> THEN value.en
    ELSE IF loc = <<"v","i">> THEN value.vi
    ELSE NoText

\* C16: pickLocalizedValue returns, verbatim, the value under the first key
\* of the chain whose value is non-empty after trimming, and absent when
\* the chain has no such key; {vi: "Ca phe"} with the chain of "en" falls
\* through to vi.
PickReturnsFirstNonBlank ==
    out.kind = "pickLocalizedValue" =>
        LET B == inp.value
            C == inp.locales
            good == {k \in DOMAIN C : TrimEnd(TrimStart(ValueAt(B, C[k]))) # NoText}
        IN  /\ good = {} => out.value = NoText
            /\ good # {} =>
                  \E k \in good :
                     /\ \A j \in good : k <= j
                     /\ out.value = ValueAt(B, C[k])
            /\ (B = [en |-> NoText, vi |-> CaPhe] /\ C = <<En, Vi>>)
                  => out.value = CaPhe

\* C16 witness: the fall-through of the example, and a chain whose first
\* key holds whitespace only.
PickReturnsFirstNonBlankWitness ==
    /\ out.kind = "pickLocalizedValue"
    /\ \/ /\ inp.value = [en |-> NoText, vi |-> CaPhe]
          /\ inp.locales = <<En, Vi>>
          /\ out.value = CaPhe
       \/ /\ inp.value = [en |-> <<" ">>, vi |-> CaPhe]
          /\ inp.locales = <<Fr, En, Vi>>
          /\ out.value = CaPhe

\* The position of the first occurrence of x in s.
FirstAt(x, s) == CHOOSE k \in DOMAIN s : s[k] = x /\ \A j \in 1..(k - 1) : s[j] # x

\* C17: buildLocalePriority returns [preferred, "en", default, "vi"] without
\* its empty and whitespace-only entries and without repeats, the first
\* occurrence kept: no entry twice, no blank entry;
\* ["fr","en","en","vi"] becomes ["fr","en","vi"].
PriorityChainClean ==
    out.kind = "buildLocalePriority" =>
        LET all == <<inp.locale, En, inp.defaultLocale, Vi>>
            c == out.chain
        IN  /\ \A i, j \in DOMAIN c : i # j => c[i] # c[j]
            /\ \A i \in DOMAIN c : TrimEnd(TrimStart(c[i])) # NoText
            /\ {c[i] : i \in DOMAIN c} =
                  {all[k] : k \in {n \in DOMAIN all : TrimEnd(TrimStart(all[n])) # NoText}}
            /\ \A i, j \in DOMAIN c :
                  i < j => FirstAt(c[i], all) < FirstAt(c[j], all)
            /\ (inp.locale = Fr /\ inp.defaultLocale = En) => c = <<Fr, En, Vi>>

\* C17 witness: the chain of the example, and a whitespace-only preferred
\* locale with the default locale equal to a fixed fallback.
PriorityChainCleanWitness ==
    /\ out.kind = "buildLocalePriority"
    /\ \/ inp.locale = Fr /\ inp.defaultLocale = En /\ out.chain = <<Fr, En, Vi>>
       \/ inp.locale = <<" ">> /\ inp.defaultLocale = Vi /\ out.chain = <<En, Vi>>

\* The first text a name holds along the chain of the process default
\* locale.
DefaultTitle(name) ==
    LET chain == IF DEFAULT_LOCALE = "vi" THEN <<"vi", "en">> ELSE <<"en", "vi">>
    IN  IF TrimEnd(TrimStart(name[chain[1]])) # NoText THEN name[chain[1]]
        ELSE IF TrimEnd(TrimStart(name[chain[2]])) # NoText THEN name[chain[2]]
        ELSE NoText

\* The stored product a returned item was built from.
Source(item) == CHOOSE id \in DOMAIN store : store[id].slug = item.slug

\* C18: a read with an empty, absent or whitespace-only Accept-Language
\* header and no locale query returns the bundles unresolved, with metaTitle
\* resolved along the chain of the process default locale; with a locale
\* query or a non-blank header the fields are localized.
BlankHeaderSkipsLocalization ==
    (out.kind \in {"getProductBySlug", "getProducts"} /\ out.status = 200) =>
        \A k \in DOMAIN out.items :
            LET item == out.items[k]
                blank == inp.query = NoText /\ TrimEnd(TrimStart(inp.header)) = NoText
            IN  /\ blank => /\ ~item.localized
                            /\ item.name_i18n = store[Source(item)].name
                            /\ item.metaTitle = DefaultTitle(store[Source(item)].name)
                /\ ~blank => /\ item.localized
                             /\ item.name # NoText

\* C18 witness: a whitespace-only header with no query was answered with
\* the bundle of a product that holds both names, and metaTitle attached.
BlankHeaderSkipsLocalizationWitness ==
    /\ out.kind = "getProductBySlug" /\ out.status = 200
    /\ inp.query = NoText /\ inp.header = <<" ">>
    /\ ~out.items[1].localized
    /\ out.items[1].name_i18n = [en |-> CaramelMacchiato, vi |-> CaPhe]
    /\ out.items[1].metaTitle # NoText

\* C19: at most one publishScheduled run started by startBlogScheduler is
\* in flight at any time.
OneRunInFlight == sched.inFlight <= 1

====
